---- MODULE Spec2Model ----
(***************************************************************************)
(* Model of find_projects/analyse.py: the directory scanner orchestrator   *)
(* (scan_project_directories), the per-directory analysis (scan_directory),*)
(* the JSON store (update_json) and the tree builder                       *)
(* (generate_project_tree_sync with should_ignore / fnmatch).              *)
(*                                                                         *)
(* Paths are sequences of tokens in which "/" is the separator; names and  *)
(* glob patterns are sequences of characters; texts are strings.           *)
(***************************************************************************)
EXTENDS Naturals, Sequences, FiniteSets, TLC

VARIABLES
    fs,                   \* parent path -> names of its immediate subdirectories
    store,                \* the file JSON_FILE_PATH: [exists, content]
    pc,                   \* controlling thread: "idle" | "draining" | "done" | "aborted"
    parent_directory,     \* argument of the current run
    append,               \* argument of the current run
    project_directories,  \* local of the run: the subdirectory paths, in submission order
    futures,              \* one per submitted task: [state, env, ret]
    completed,            \* task indexes in the order their futures completed
    results,              \* local of the run: records drained so far
    upd,                  \* thread -> the update_json call that thread is executing
    tempfiles,            \* temporary tree dumps on disk: <<run number, task index>>
    chat_calls,           \* tasks of the current run that issued a chat request
    base,                 \* history: store content when the run began dispatching
    written,              \* history: records whose update_json has completed, this run
    history,              \* history: the completed runs, [parent, append]
    budget,               \* runs the user may still start
    envs,                 \* the environments a scan may meet in this behaviour
    tree_dir,             \* tree builder input: [par, name] of a directory's entries
    tree_patterns,        \* tree builder input: the ignore patterns
    tree_out              \* tree builder output: [done, lines]

vars == <<fs, store, pc, parent_directory, append, project_directories, futures,
          completed, results, upd, tempfiles, chat_calls, base, written, history,
          budget, envs, tree_dir, tree_patterns, tree_out>>

scan_vars == <<fs, store, pc, parent_directory, append, project_directories, futures,
               completed, results, upd, tempfiles, chat_calls, base, written, history,
               budget, envs>>

tree_vars == <<tree_dir, tree_patterns, tree_out>>

-----------------------------------------------------------------------------
(* Bounds *)

MaxSubdirs == 2

MaxNodes == 4

-----------------------------------------------------------------------------
(* Paths: os.path.join and os.path.basename on POSIX *)

Sep == "/"

NamePool == <<"proj_a", "proj_b", "proj_c", "proj_d">>

Names == {NamePool[i] : i \in 1..MaxSubdirs}

ParentA == <<"work", Sep, "repos">>

ParentB == <<"other", Sep>>

Parents == {ParentA, ParentB}

path_join(a, b) ==
    IF b # <<>> /\ Head(b) = Sep THEN b
    ELSE IF a = <<>> \/ a[Len(a)] = Sep THEN a \o b
    ELSE a \o <<Sep>> \o b

\* index of the last separator of p, 0 when there is none (str.rfind + 1)
rfind_sep(p) ==
    LET S == {i \in 1..Len(p) : p[i] = Sep}
    IN  IF S = {} THEN 0 ELSE CHOOSE i \in S : \A j \in S : j <= i

basename_first(p) ==
    LET S == {i \in 1..Len(p) : p[i] = Sep}
        i == IF S = {} THEN 0 ELSE CHOOSE k \in S : \A j \in S : k <= j
    IN  SubSeq(p, i + 1, Len(p))

basename(p) == SubSeq(p, rfind_sep(p) + 1, Len(p))

\* os.scandir(parent_directory), directories only: a fixed enumeration order
RECURSIVE scandir_from(_, _)
scandir_from(S, i) ==
    IF i > Len(NamePool) THEN <<>>
    ELSE (IF NamePool[i] \in S THEN <<NamePool[i]>> ELSE <<>>) \o scandir_from(S, i + 1)

scandir_dirs(p) == scandir_from(fs[p], 1)

list_project_directories(p) ==
    [i \in 1..Len(scandir_dirs(p)) |-> path_join(p, <<scandir_dirs(p)[i]>>)]

-----------------------------------------------------------------------------
(* scan_directory *)

MissingMsg == "README or similar file not found"

ErrPrefix == "An error occurred: "

possible_files == <<"README.md", "readme.md", "README.txt", "readme.txt", "pyproject.toml">>

\* the description files a directory may hold: none, or one candidate, empty or not
DescKinds == {[file |-> "", text |-> ""],
              [file |-> "README.md", text |-> "A tiny calculator"],
              [file |-> "pyproject.toml", text |-> ""]}

\* where the analysis of a directory may raise, and str(e) of what it raises
FaultPoints == {"none", "gitignore", "tree", "tempcreate", "tempwrite", "read", "chat"}

exc_text(fault) ==
    CASE fault = "gitignore"  -> "[Errno 13] Permission denied: '.gitignore'"
      [] fault = "tree"       -> "[Errno 13] Permission denied: 'sub'"
      [] fault = "tempcreate" -> "[Errno 28] No space left on device: '/tmp'"
      [] fault = "tempwrite"  -> "[Errno 28] No space left on device"
      [] fault = "read"       -> "'utf-8' codec can't decode byte 0xff"
      [] fault = "chat"       -> "[Errno 111] Connection refused"
      [] OTHER                -> "'str' object has no attribute 'get'"

\* what ollama_client.chat may answer
RespOk == [message |-> [content |-> "It is a calculator."]]

RespExtra == [message |-> [content |-> "It is a calculator."],
              tech_stack |-> "Python", purpose |-> "Arithmetic"]

RespNoMessage == [done |-> TRUE]

\* a message that is a plain string, not a mapping
RespBadMessage == [message |-> [str_value |-> "It is a calculator."]]

Responses == {RespOk, RespExtra, RespNoMessage, RespBadMessage}

\* dict.get(key, default)
get(d, k, default) == IF k \in DOMAIN d THEN d[k] ELSE default

EmptyDict == <<>>

\* a value that has a .get method (a mapping), as opposed to a string
is_mapping(v) == "str_value" \notin DOMAIN v

\* read_project_info: the first candidate that exists, else None (modelled as "")
read_project_info(desc) ==
    IF \E i \in 1..Len(possible_files) : possible_files[i] = desc.file
    THEN desc.text ELSE ""

error_record(directory, text) ==
    [title |-> basename(directory), directory |-> directory, error |-> text]

caught_text_bare(fault) == exc_text(fault)

caught_text(fault) == ErrPrefix \o exc_text(fault)

raised(directory, fault, temp, called) ==
    [outcome |-> "return", record |-> error_record(directory, caught_text(fault)),
     temp |-> temp, called |-> called]

propagated(directory, fault, temp, called) ==
    [outcome |-> "raise", record |-> error_record(directory, exc_text(fault)),
     temp |-> temp, called |-> called]

on_exception(directory, fault, temp, called) == raised(directory, fault, temp, called)

success_record(directory, response) ==
    [title |-> basename(directory), directory |-> directory,
     summary |-> get(get(response, "message", EmptyDict), "content", "No summary provided"),
     tech_stack |-> get(response, "tech_stack", "No tech stack identified"),
     purpose |-> get(response, "purpose", "No purpose identified")]

missing_return_other(directory) ==
    [outcome |-> "return", record |-> error_record(directory, "No description"),
     temp |-> TRUE, called |-> FALSE]

\* `if not readme_content: return {...}`
missing_return(directory) ==
    [outcome |-> "return", record |-> error_record(directory, MissingMsg),
     temp |-> TRUE, called |-> FALSE]

\* the value scan_directory returns for `directory` in environment env =
\* [desc, fault, response], with what it leaves behind: temp (the temporary
\* file is still on disk) and called (a chat request was issued)
scan_directory(directory, env) ==
    IF env.fault \in {"gitignore", "tree", "tempcreate"}
    THEN on_exception(directory, env.fault, FALSE, FALSE)
    ELSE IF env.fault = "tempwrite"
    THEN on_exception(directory, env.fault, TRUE, FALSE)
    ELSE IF env.fault = "read" /\ env.desc.file # ""
    THEN on_exception(directory, env.fault, TRUE, FALSE)
    ELSE IF read_project_info(env.desc) = ""
    THEN missing_return(directory)
    ELSE IF env.fault = "chat"
    THEN on_exception(directory, env.fault, TRUE, TRUE)
    ELSE IF ~is_mapping(get(env.response, "message", EmptyDict))
    THEN on_exception(directory, "response", FALSE, TRUE)
    ELSE [outcome |-> "return", record |-> success_record(directory, env.response),
          temp |-> FALSE, called |-> TRUE]

-----------------------------------------------------------------------------
(* The JSON store *)

NoFile == [exists |-> FALSE, content |-> <<>>]

\* json.load of the file when it exists, else []
load_or_empty(st) == IF st.exists THEN st.content ELSE <<>>

store_at_start_keep(st, a) == st

store_at_start_remove(st, a) == NoFile

\* scan_project_directories, `if not append`: os.remove of an existing file
store_at_start(st, a) == IF ~a THEN NoFile ELSE st

\* projects.append(project_data); json.dump(projects, file)
rewritten(projects, data) == [exists |-> TRUE, content |-> Append(projects, data)]

-----------------------------------------------------------------------------
(* scan_project_directories *)

Main == 0

Threads == {Main} \cup (1..MaxSubdirs)

Idle == [stage |-> "idle", data |-> <<>>, projects |-> <<>>]

Pending == [state |-> "pending", env |-> <<>>, ret |-> <<>>]

update_json_thread_worker(t) == t

\* the thread that executes update_json for the result of task t
update_json_thread(t) == Main

as_completed_in_submission_order(futs, done, n) ==
    IF n < Len(futs) /\ futs[n + 1].state = "done" THEN n + 1 ELSE 0

\* asyncio.as_completed: the task whose result the next `await future` yields,
\* 0 while no undrained task has completed
as_completed(futs, done, n) == IF n < Len(done) THEN done[n + 1] ELSE 0

run_no == Len(history) + 1

StartRun(p, a) ==
    /\ pc \in {"idle", "done", "aborted"}
    /\ budget > 0
    /\ budget' = budget - 1
    /\ parent_directory' = p
    /\ append' = a
    /\ project_directories' = list_project_directories(p)
    /\ results' = <<>>
    /\ store' = store_at_start(store, a)
    /\ futures' = [i \in 1..Len(list_project_directories(p)) |-> Pending]
    /\ completed' = <<>>
    /\ chat_calls' = {}
    /\ base' = load_or_empty(store_at_start(store, a))
    /\ written' = <<>>
    /\ pc' = "draining"
    /\ UNCHANGED <<fs, upd, tempfiles, history, envs>>
    /\ UNCHANGED tree_vars

\* a worker thread of the default executor runs scan_directory for task i
Worker(i) ==
    /\ pc = "draining"
    /\ i \in DOMAIN futures
    /\ futures[i].state = "pending"
    /\ \E env \in envs :
         LET ret == scan_directory(project_directories[i], env)
         IN  /\ futures' = [futures EXCEPT ![i] =
                              [state |-> "done", env |-> <<env>>, ret |-> <<ret>>]]
             /\ tempfiles' = IF ret.temp THEN tempfiles \cup {<<run_no, i>>} ELSE tempfiles
             /\ chat_calls' = IF ret.called THEN chat_calls \cup {i} ELSE chat_calls
    /\ completed' = Append(completed, i)
    /\ UNCHANGED <<fs, store, pc, parent_directory, append, project_directories,
                   results, upd, base, written, history, budget, envs>>
    /\ UNCHANGED tree_vars

\* `project_data = await future; results.append(project_data)` and the call
\* of update_json
Drain ==
    /\ pc = "draining"
    /\ upd[Main] = Idle
    /\ LET t == as_completed(futures, completed, Len(results))
       IN  /\ t # 0
           /\ LET ret == futures[t].ret[1]
              IN  IF ret.outcome = "raise"
                  THEN /\ pc' = "aborted"
                       /\ UNCHANGED <<results, upd>>
                  ELSE /\ results' = Append(results, ret.record)
                       /\ upd' = [upd EXCEPT ![update_json_thread(t)] =
                                    [stage |-> "start", data |-> <<ret.record>>,
                                     projects |-> <<>>]]
                       /\ pc' = pc
    /\ UNCHANGED <<fs, store, parent_directory, append, project_directories, futures,
                   completed, tempfiles, chat_calls, base, written, history, budget,
                   envs>>
    /\ UNCHANGED tree_vars

\* update_json, first half: load the array or start from []
update_json_load(th) ==
    /\ upd[th].stage = "start"
    /\ upd' = [upd EXCEPT ![th] = [@ EXCEPT !.stage = "loaded",
                                             !.projects = load_or_empty(store)]]
    /\ UNCHANGED <<fs, store, pc, parent_directory, append, project_directories,
                   futures, completed, results, tempfiles, chat_calls, base, written,
                   history, budget, envs>>
    /\ UNCHANGED tree_vars

\* update_json, second half: append and rewrite the whole file
update_json_write(th) ==
    /\ upd[th].stage = "loaded"
    /\ store' = rewritten(upd[th].projects, upd[th].data[1])
    /\ written' = Append(written, upd[th].data[1])
    /\ upd' = [upd EXCEPT ![th] = Idle]
    /\ UNCHANGED <<fs, pc, parent_directory, append, project_directories, futures,
                   completed, results, tempfiles, chat_calls, base, history, budget,
                   envs>>
    /\ UNCHANGED tree_vars

\* the loop has drained every future: `return results`
Finish ==
    /\ pc = "draining"
    /\ upd[Main] = Idle
    /\ Len(results) = Len(project_directories)
    /\ pc' = "done"
    /\ history' = Append(history, [parent |-> parent_directory, append |-> append])
    /\ UNCHANGED <<fs, store, parent_directory, append, project_directories, futures,
                   completed, results, upd, tempfiles, chat_calls, base, written,
                   budget, envs>>
    /\ UNCHANGED tree_vars

-----------------------------------------------------------------------------
(* Environments and initial states *)

ReadmeDesc == [file |-> "README.md", text |-> "A tiny calculator"]

NoDesc == [file |-> "", text |-> ""]

\* the environments that differ in what scan_directory meets: a fault before
\* the description is read meets any description; a read fault needs a file to
\* read; the chat request is reached only with a non-empty description
EnvAll ==
    [desc : DescKinds, fault : {"gitignore", "tree", "tempcreate", "tempwrite"},
     response : {RespOk}]
    \cup [desc : DescKinds \ {NoDesc}, fault : {"read"}, response : {RespOk}]
    \cup [desc : DescKinds \ {ReadmeDesc}, fault : {"none"}, response : {RespOk}]
    \cup [desc : {ReadmeDesc}, fault : {"none"}, response : Responses]
    \cup [desc : {ReadmeDesc}, fault : {"chat"}, response : {RespOk}]

EnvCore == {[desc |-> ReadmeDesc, fault |-> "none", response |-> RespOk],
            [desc |-> ReadmeDesc, fault |-> "chat", response |-> RespOk]}

OldRecord == [title |-> <<"old">>, directory |-> <<"elsewhere", Sep, "old">>,
              error |-> MissingMsg]

\* the layouts of the parents: each holds the first k names of the pool
Layouts == {[p \in Parents |-> {NamePool[i] : i \in 1..k[p]}] :
              k \in [Parents -> 0..MaxSubdirs]}

TreeIdle == [done |-> FALSE, lines |-> <<>>]

Stores == {NoFile, [exists |-> TRUE, content |-> <<>>],
           [exists |-> TRUE, content |-> <<OldRecord>>]}

ScanInit ==
    /\ pc = "idle"
    /\ parent_directory = ParentA
    /\ append = FALSE
    /\ project_directories = <<>>
    /\ futures = <<>>
    /\ completed = <<>>
    /\ results = <<>>
    /\ upd = [th \in Threads |-> Idle]
    /\ tempfiles = {}
    /\ chat_calls = {}
    /\ base = <<>>
    /\ written = <<>>
    /\ history = <<>>

TreeFixed ==
    /\ tree_dir = [par |-> <<>>, name |-> <<>>, isdir |-> <<>>]
    /\ tree_patterns = <<>>
    /\ tree_out = TreeIdle

\* two runs: the scenarios of a run after a run
Init ==
    /\ ScanInit
    /\ fs \in Layouts
    /\ store \in Stores
    /\ budget = 2
    /\ envs = EnvCore
    /\ TreeFixed

\* one run, in which every scan meets the same one or two environments
OneRunInit ==
    /\ ScanInit
    /\ fs \in Layouts
    /\ store = NoFile
    /\ budget = 1
    /\ envs \in {S \in SUBSET EnvAll : Cardinality(S) \in 1..2}
    /\ TreeFixed

Next ==
    \/ \E p \in Parents, a \in BOOLEAN : StartRun(p, a)
    \/ \E i \in 1..MaxSubdirs : Worker(i)
    \/ Drain
    \/ \E th \in Threads : update_json_load(th)
    \/ \E th \in Threads : update_json_write(th)
    \/ Finish

Spec == Init /\ [][Next]_vars

ScanSpec == OneRunInit /\ [][Next]_vars

EnvFair == EnvCore \cup {[desc |-> NoDesc, fault |-> "none", response |-> RespOk]}

\* one run, some scans succeeding and some failing
FairInit ==
    /\ ScanInit
    /\ fs \in Layouts
    /\ store = NoFile
    /\ budget = 1
    /\ envs = EnvFair
    /\ TreeFixed

\* the executor runs every submitted task and the event loop resumes the
\* controlling coroutine whenever the future it awaits has completed
Fairness ==
    /\ \A i \in 1..MaxSubdirs : WF_vars(Worker(i))
    /\ WF_vars(Drain)
    /\ WF_vars(update_json_load(Main))
    /\ WF_vars(update_json_write(Main))
    /\ WF_vars(Finish)

FairSpec == FairInit /\ [][Next]_vars /\ Fairness

-----------------------------------------------------------------------------
(* should_ignore and generate_project_tree_sync *)

\* the entries of the scanned directory are 1..Len(tree_dir.par); entry n lies
\* in entry tree_dir.par[n], 0 being the scanned directory itself
Root == 0

Indent == "|   "

\* fnmatch.fnmatch(name, pat) on POSIX: "*" matches any run of characters,
\* "?" any one character, any other character itself
RECURSIVE fnmatch(_, _)
fnmatch(name, pat) ==
    IF pat = <<>> THEN name = <<>>
    ELSE IF Head(pat) = "*"
    THEN fnmatch(name, Tail(pat)) \/ (name # <<>> /\ fnmatch(Tail(name), pat))
    ELSE /\ name # <<>>
         /\ Head(pat) = "?" \/ Head(pat) = Head(name)
         /\ fnmatch(Tail(name), Tail(pat))

should_ignore_all(name, patterns) ==
    \A i \in 1..Len(patterns) : fnmatch(name, patterns[i])

should_ignore(name, patterns) ==
    \E i \in 1..Len(patterns) : fnmatch(name, patterns[i])

\* os.scandir(directory): the entries of d, in enumeration order
RECURSIVE entries_from(_, _)
entries_from(d, i) ==
    IF i > Len(tree_dir.par) THEN <<>>
    ELSE (IF tree_dir.par[i] = d THEN <<i>> ELSE <<>>) \o entries_from(d, i + 1)

scandir(d) == entries_from(d, 1)

RECURSIVE generate_project_tree_sync(_, _, _)
RECURSIVE tree_of_entries(_, _, _)
\* the body of the `for entry in it` loop, over the entries still to visit
tree_of_entries(es, patterns, prefix) ==
    IF es = <<>> THEN <<>>
    ELSE LET entry == Head(es)
             name == tree_dir.name[entry]
         IN  (IF should_ignore(name, patterns) THEN <<>>
              ELSE <<prefix \o name>>
                   \o (IF tree_dir.isdir[entry]
                       THEN generate_project_tree_sync(entry, patterns,
                                                       prefix \o <<Indent>>)
                       ELSE <<>>))
             \o tree_of_entries(Tail(es), patterns, prefix)

generate_project_tree_sync(directory, patterns, prefix) ==
    tree_of_entries(scandir(directory), patterns, prefix)

\* the tree of the scanned directory is built, as scan_directory builds it
GenerateTree ==
    /\ ~tree_out.done
    /\ tree_out' = [done |-> TRUE,
                    lines |-> generate_project_tree_sync(Root, tree_patterns, <<>>)]
    /\ UNCHANGED <<tree_dir, tree_patterns>>
    /\ UNCHANGED scan_vars

EntryNames == {<<"a">>, <<"b">>, <<"a", "b">>}

\* the ignore-pattern lists tried: none, each kind of pattern alone, and lists
\* of two patterns
PatternLists ==
    {<<>>,
     << <<"a">> >>,
     << <<"*">> >>,
     << <<"a", "*">> >>,
     << <<"?", "b">> >>,
     << <<"b", "a">> >>,
     << <<"a">>, <<"?", "b">> >>,
     << <<"b", "a">>, <<"*", "b">> >>,
     << <<"b">>, <<"a">> >>}

\* the directories of at most MaxNodes entries: an entry lies in the scanned
\* directory or in an earlier entry that is a directory, and no two entries of
\* one directory share a name
Directories ==
    UNION {
      {d \in [par : [1..n -> 0..(n - 1)], name : [1..n -> EntryNames],
              isdir : [1..n -> BOOLEAN]] :
         /\ \A i \in 1..n : d.par[i] < i /\ (d.par[i] # Root => d.isdir[d.par[i]])
         /\ \A i, j \in 1..n :
              (i # j /\ d.par[i] = d.par[j]) => d.name[i] # d.name[j]}
      : n \in 0..MaxNodes}

TreeInit ==
    /\ tree_dir \in Directories
    /\ tree_patterns \in PatternLists
    /\ tree_out = TreeIdle
    /\ ScanInit
    /\ fs = [p \in Parents |-> {}]
    /\ store = NoFile
    /\ budget = 0
    /\ envs = {}

TreeNext == GenerateTree

TreeSpec == TreeInit /\ [][TreeNext]_vars

-----------------------------------------------------------------------------
(* Properties *)

SummaryFields == {"summary", "tech_stack", "purpose"}

\* the tasks whose scan_directory has returned
Returned == {i \in DOMAIN futures : futures[i].state = "done"}

EnvOf(i) == futures[i].env[1]

RecordOf(i) == futures[i].ret[1].record

\* the scan of this environment raises inside the try block
Fails(env) == env.fault # "none" \/ env.response = RespBadMessage

\* str(e) of the exception that scan raises
TextOf(env) == IF env.fault # "none" THEN exc_text(env.fault) ELSE exc_text("response")

SubdirPaths(p) == {path_join(p, <<n>>) : n \in fs[p]}

StoredDirectories == {store.content[k].directory : k \in 1..Len(store.content)}

RunsCompleted == pc = "done" /\ Len(history) = 2

\* C1: after two complete runs with append=False on the same parent, the store
\* holds exactly one record per immediate subdirectory of that parent and
\* nothing else.
C1_ReplaceTwice ==
    (/\ RunsCompleted
     /\ ~history[1].append /\ ~history[2].append
     /\ history[1].parent = history[2].parent)
    => /\ Len(store.content) = Cardinality(fs[history[2].parent])
       /\ StoredDirectories = SubdirPaths(history[2].parent)

C1_Witness ==
    /\ RunsCompleted
    /\ ~history[1].append /\ ~history[2].append
    /\ history[1].parent = history[2].parent
    /\ Cardinality(fs[history[2].parent]) = MaxSubdirs
    /\ Len(store.content) = MaxSubdirs

\* C2: a complete run with append=False on a parent with N1 subdirectories,
\* then a complete run with append=True on a parent with N2, leaves exactly
\* N1+N2 records in the store.
C2_ReplaceThenAppend ==
    (/\ RunsCompleted
     /\ ~history[1].append /\ history[2].append)
    => Len(store.content) = Cardinality(fs[history[1].parent])
                              + Cardinality(fs[history[2].parent])

C2_Witness ==
    /\ RunsCompleted
    /\ ~history[1].append /\ history[2].append
    /\ history[1].parent # history[2].parent
    /\ Cardinality(fs[history[1].parent]) = MaxSubdirs
    /\ Cardinality(fs[history[2].parent]) = 1
    /\ Len(store.content) = MaxSubdirs + 1

\* C3: only the controlling thread executes update_json, one call at a time;
\* the content a call loaded is still the store's content when it rewrites the
\* file, and the store is what the run found followed by every record whose
\* update has completed: none lost, none overwritten.
C3_UpdatesSerialized ==
    /\ \A th \in Threads : upd[th] # Idle => th = Main
    /\ \A th \in Threads : upd[th].stage = "loaded" => upd[th].projects = load_or_empty(store)
    /\ pc # "idle" => load_or_empty(store) = base \o written

C3_Witness ==
    /\ upd[Main].stage = "loaded"
    /\ upd[Main].projects # <<>>
    /\ Len(completed) > Len(results)

AllPersisted ==
    \A i \in DOMAIN project_directories :
        /\ i \in Returned
        /\ futures[i].ret[1].outcome = "return"
        /\ \E k \in 1..Len(written) :
              /\ written[k].directory = project_directories[i]
              /\ Fails(EnvOf(i)) => "error" \in DOMAIN written[k]
        /\ \E k \in 1..Len(store.content) : store.content[k] = RecordOf(i)

\* C4: whichever scans fail, a run that has dispatched its tasks reaches its
\* end with every task returned and a record persisted for every
\* subdirectory, the failing ones carrying an error field.
C4_BatchCompletes == (pc = "draining") ~> (pc = "done" /\ AllPersisted)

C4_Witness ==
    /\ pc = "done"
    /\ AllPersisted
    /\ \E i, j \in Returned : Fails(EnvOf(i)) /\ "summary" \in DOMAIN RecordOf(j)

\* C5, as stated: every subdirectory without a description file gets the record
\* with error "README or similar file not found", no summary, tech_stack or
\* purpose, and no model call.
C5_MissingAlwaysReported ==
    \A i \in Returned :
        EnvOf(i).desc = NoDesc
        => /\ "error" \in DOMAIN RecordOf(i)
           /\ RecordOf(i).error = MissingMsg
           /\ DOMAIN RecordOf(i) \cap SummaryFields = {}
           /\ i \notin chat_calls

\* C5, amended: a subdirectory without a description file gets an error record
\* with no summary, tech_stack or purpose and no model call; the error is
\* "README or similar file not found" whenever reading the ignore file,
\* building the tree and writing the temporary file raised nothing.
C5_MissingReported ==
    \A i \in Returned :
        EnvOf(i).desc = NoDesc
        => /\ "error" \in DOMAIN RecordOf(i)
           /\ ~Fails(EnvOf(i)) => RecordOf(i).error = MissingMsg
           /\ DOMAIN RecordOf(i) \cap SummaryFields = {}
           /\ i \notin chat_calls

C5_Witness ==
    \E i \in Returned :
        /\ EnvOf(i).desc = NoDesc
        /\ ~Fails(EnvOf(i))
        /\ RecordOf(i).error = MissingMsg

WellFormed(r) ==
    /\ {"title", "directory"} \subseteq DOMAIN r
    /\ r.directory # <<>>
    /\ r.title = <<r.directory[Len(r.directory)]>>
    /\ r.title # <<Sep>>
    /\ \/ SummaryFields \subseteq DOMAIN r /\ "error" \notin DOMAIN r
       \/ "error" \in DOMAIN r /\ DOMAIN r \cap SummaryFields = {}

\* C6: every record scan_directory returns, and every record written to the
\* store, has title and directory, the title being the last component of the
\* directory, and either the whole summary payload or an error, never both
\* and never neither.
C6_RecordShape ==
    /\ \A i \in Returned : WellFormed(RecordOf(i))
    /\ \A k \in 1..Len(store.content) : WellFormed(store.content[k])

C6_Witness ==
    /\ pc = "done"
    /\ parent_directory = ParentB
    /\ \E j, k \in 1..Len(store.content) :
          /\ "summary" \in DOMAIN store.content[j]
          /\ "error" \in DOMAIN store.content[k]

\* C7, as stated: when the scan raises, the error field is the text of the
\* exception and the record has no summary, tech_stack or purpose.
C7_ErrorIsExceptionText ==
    \A i \in Returned :
        Fails(EnvOf(i))
        => /\ "error" \in DOMAIN RecordOf(i)
           /\ RecordOf(i).error = TextOf(EnvOf(i))
           /\ DOMAIN RecordOf(i) \cap SummaryFields = {}

\* C7, amended: when the scan raises, the error field is "An error occurred: "
\* followed by the text of the exception, and the record has no summary,
\* tech_stack or purpose.
C7_ErrorCarriesExceptionText ==
    \A i \in Returned :
        Fails(EnvOf(i))
        => /\ "error" \in DOMAIN RecordOf(i)
           /\ RecordOf(i).error = ErrPrefix \o TextOf(EnvOf(i))
           /\ DOMAIN RecordOf(i) \cap SummaryFields = {}

C7_Witness ==
    \E i, j \in Returned :
        /\ EnvOf(i).fault = "chat"
        /\ EnvOf(j).response = RespBadMessage
        /\ RecordOf(j).error = ErrPrefix \o exc_text("response")

\* C8: no temporary tree dump of a task is left on disk once scan_directory
\* has returned for it.
C8_TempFilesDeleted == tempfiles = {}

\* C10: results are drained in completion order, each drained record is
\* persisted before the next is drained, and the list the run returns is the
\* sequence of records the run appended to the store.
C10_DrainedInCompletionOrder ==
    /\ pc \in {"draining", "done"}
       => /\ Len(results) <= Len(completed)
          /\ \A k \in 1..Len(results) : results[k] = RecordOf(completed[k])
          /\ Len(results) - Len(written) \in {0, 1}
          /\ written = SubSeq(results, 1, Len(written))
    /\ pc = "done"
       => results = SubSeq(store.content, Len(base) + 1, Len(store.content))

C10_Witness ==
    /\ pc = "done"
    /\ Len(results) = MaxSubdirs
    /\ completed[1] # 1
    /\ results[1].directory = project_directories[completed[1]]
    /\ base # <<>>

Entries == 1..Len(tree_dir.par)

\* shell-glob matching, stated by cuts: c[i] is how much of the name the first
\* i pattern characters consume
GlobMatches(name, pat) ==
    \E c \in [0..Len(pat) -> 0..Len(name)] :
        /\ c[0] = 0
        /\ c[Len(pat)] = Len(name)
        /\ \A i \in 1..Len(pat) :
              /\ c[i - 1] <= c[i]
              /\ \/ pat[i] = "*"
                 \/ /\ c[i] = c[i - 1] + 1
                    /\ pat[i] = "?" \/ pat[i] = name[c[i]]

Ignored(n) ==
    \E k \in 1..Len(tree_patterns) : GlobMatches(tree_dir.name[n], tree_patterns[k])

\* n and the entries above it, up to the scanned directory
RECURSIVE Above(_)
Above(n) == IF n = Root THEN {} ELSE {n} \cup Above(tree_dir.par[n])

Depth(n) == Cardinality(Above(n)) - 1

\* the entries that are neither ignored nor beneath an ignored entry
Kept == {n \in Entries : \A m \in Above(n) : ~Ignored(m)}

\* m comes before n in the pre-order walk
Before(m, n) ==
    \/ m # n /\ m \in Above(n)
    \/ \E a \in Above(m), b \in Above(n) :
          /\ a # b
          /\ tree_dir.par[a] = tree_dir.par[b]
          /\ a < b
          /\ a \notin Above(n) /\ b \notin Above(m)

Position(n) == 1 + Cardinality({m \in Kept : Before(m, n)})

IndentOf(n) == [k \in 1..Depth(n) |-> Indent]

\* C9: the tree lines hold no ignored entry and nothing beneath one; every
\* other entry has exactly one line, at its place in the pre-order walk (right
\* before the lines of its own descendants), made of one indent marker per
\* level of depth and then its name.
C9_TreeLines ==
    tree_out.done
    => /\ Len(tree_out.lines) = Cardinality(Kept)
       /\ \A n \in Kept : tree_out.lines[Position(n)] = IndentOf(n) \o tree_dir.name[n]

C9_Witness ==
    /\ tree_out.done
    /\ \E n \in Entries : Ignored(n) /\ \E m \in Entries : m # n /\ n \in Above(m)
    /\ \E n \in Kept : Depth(n) = 1

====
